---- MODULE Spec2Model ----
(***************************************************************************)
(* Model of the PDF merge and split request handlers of src/server.js.     *)
(*                                                                         *)
(* A document is the sequence of its pages; a page is <<f, k>>, the k-th   *)
(* (0-based) page of uploaded file f.  Text (pageRanges, numParts, range   *)
(* tokens) is a sequence of one-character strings, so that split, trim and *)
(* parseInt are computed as JavaScript computes them.  A handler runs from *)
(* one await to the next as one action; requests interleave at awaits.     *)
(* The PDF codec (pdf-lib) is taken at its interface: copyPages copies the *)
(* pages at the given indices and throws when an index names no page; the  *)
(* bytes save() returns stand for the page sequence built with addPage.    *)
(***************************************************************************)
EXTENDS Integers, Sequences, FiniteSets, TLC

(* ---------------------------- bounds ---------------------------------- *)
MaxPages == 2
MaxTokens == 2
MaxFiles == 3
MaxParts == 3
MaxClock == 1

MaxNum == MaxPages + 1
Reqs == {1, 2}

(* ------------------------- JavaScript values --------------------------- *)
\* A JavaScript number as far as the handlers need it: an integer or NaN.
Num(v) == [nan |-> FALSE, v |-> v]
NaN == [nan |-> TRUE, v |-> 0]

\* x - 1 (NaN - 1 is NaN)
MinusOneDropped(x) == x
MinusOne(x) == IF x.nan THEN NaN ELSE Num(x.v - 1)

\* x <= y and x < y on numbers: every comparison with NaN is false
NumLE(x, y) == ~x.nan /\ ~y.nan /\ x.v <= y.v
NumLT(x, y) == ~x.nan /\ ~y.nan /\ x.v < y.v

DigitChars == <<"0", "1", "2", "3", "4", "5", "6", "7", "8", "9">>
IsDigit(c) == \E d \in 1..10 : DigitChars[d] = c
DigitVal(c) == (CHOOSE d \in 1..10 : DigitChars[d] = c) - 1
IsSpace(c) == c = " "

\* String.prototype.trim
RECURSIVE Trim(_)
Trim(s) ==
  IF s = <<>> THEN s
  ELSE IF IsSpace(Head(s)) THEN Trim(Tail(s))
  ELSE IF IsSpace(s[Len(s)]) THEN Trim(SubSeq(s, 1, Len(s) - 1))
  ELSE s

\* String.prototype.includes for a one-character needle
Includes(s, c) == \E k \in 1..Len(s) : s[k] = c

\* String.prototype.split for a one-character separator
RECURSIVE Split(_, _)
Split(s, sep) ==
  IF Includes(s, sep)
  THEN LET k == CHOOSE j \in 1..Len(s) :
                  s[j] = sep /\ \A m \in 1..(j - 1) : s[m] # sep
       IN <<SubSeq(s, 1, k - 1)>> \o Split(SubSeq(s, k + 1, Len(s)), sep)
  ELSE <<s>>

\* value of the longest prefix of decimal digits, acc being the value so far
RECURSIVE DigitsValue(_, _)
DigitsValue(s, acc) ==
  IF s = <<>> \/ ~IsDigit(Head(s)) THEN acc
  ELSE DigitsValue(Tail(s), 10 * acc + DigitVal(Head(s)))

\* parseInt(s): leading white space skipped, an optional sign, then the
\* longest prefix of digits; NaN when there is no digit
RECURSIVE ParseInt(_)
ParseInt(s) ==
  IF s # <<>> /\ IsSpace(Head(s)) THEN ParseInt(Tail(s))
  ELSE LET neg == s # <<>> /\ Head(s) = "-"
           t == IF s # <<>> /\ Head(s) \in {"-", "+"} THEN Tail(s) ELSE s
       IN IF t = <<>> \/ ~IsDigit(Head(t)) THEN NaN
          ELSE Num((IF neg THEN -1 ELSE 1) * DigitsValue(t, 0))

\* Truthiness of a string: the empty string is falsy
Truthy(s) == s # <<>>

(* ------------------------------ PDF codec ------------------------------ *)
\* PDFDocument.create(): a document without pages
EmptyPdf == <<>>

\* pdf.getPageCount() and pdf.getPageIndices()
PageCount(pdf) == Len(pdf)
PageIndices(pdf) == [k \in 1..Len(pdf) |-> k - 1]

\* dst.copyPages(src, indices): the pages of src at the 0-based indices, in
\* the order given; it throws when an index names no page of src
CopyPages(src, indices) ==
  IF \A k \in 1..Len(indices) : indices[k] \in 0..(Len(src) - 1)
  THEN [threw |-> FALSE, pages |-> [k \in 1..Len(indices) |-> src[indices[k] + 1]]]
  ELSE [threw |-> TRUE, pages |-> <<>>]

\* copiedPages.forEach(page => mergedPdf.addPage(page))
AddPagesInFront(pdf, pages) == pages \o pdf
AddPages(pdf, pages) == pdf \o pages

(* ------------------------- split: page ranges -------------------------- *)
\* pageRanges.split(',').map(r => r.trim())
ParseRangesUnsplit(pageRanges) == <<Trim(pageRanges)>>
ParseRanges(pageRanges) ==
  LET raw == Split(pageRanges, ",") IN [k \in 1..Len(raw) |-> Trim(raw[k])]

\* range.split('-').map(n => parseInt(n.trim()) - 1), destructured as
\* [start, end]
IntervalBounds(range) ==
  LET f == Split(range, "-")
  IN [start |-> MinusOne(ParseInt(Trim(f[1]))),
      end |-> IF Len(f) >= 2 THEN MinusOne(ParseInt(Trim(f[2]))) ELSE NaN]

\* for (let p = start; p <= end && p < totalPages; p++) { copy page p }
RECURSIVE IntervalLoop(_, _, _, _, _)
IntervalLoop(p, end, totalPages, pdfDoc, newPdf) ==
  IF ~(NumLE(p, end) /\ NumLT(p, Num(totalPages)))
  THEN [threw |-> FALSE, pdf |-> newPdf]
  ELSE LET c == CopyPages(pdfDoc, <<p.v>>)
       IN IF c.threw THEN [threw |-> TRUE, pdf |-> newPdf]
          ELSE IntervalLoop(Num(p.v + 1), end, totalPages, pdfDoc,
                            AddPages(newPdf, c.pages))

\* const pageNum = parseInt(range) - 1; if (pageNum < totalPages) { copy }
SinglePage(range, totalPages, pdfDoc) ==
  LET pageNum == MinusOne(ParseInt(range))
  IN IF NumLT(pageNum, Num(totalPages))
     THEN LET c == CopyPages(pdfDoc, <<pageNum.v>>)
          IN [threw |-> c.threw, pdf |-> AddPages(EmptyPdf, c.pages)]
     ELSE [threw |-> FALSE, pdf |-> EmptyPdf]

\* the body of the loop over ranges up to the file name: the new document
\* built for one token, or the exception thrown while building it
BuildRange(range, totalPages, pdfDoc) ==
  IF Includes(range, "-")
  THEN LET b == IntervalBounds(range)
       IN IntervalLoop(b.start, b.end, totalPages, pdfDoc, EmptyPdf)
  ELSE SinglePage(range, totalPages, pdfDoc)

(* --------------------------- split: by size ---------------------------- *)
Min(a, b) == IF a <= b THEN a ELSE b

\* Math.ceil(totalPages / parts); read only inside the loop over the parts,
\* which runs only when parts >= 1
PagesPerPartRoundedDown(totalPages, parts) ==
  IF parts >= 1 THEN totalPages \div parts ELSE 0
PagesPerPart(totalPages, parts) ==
  IF parts >= 1 THEN (totalPages + parts - 1) \div parts ELSE 0

\* startPage = i * pagesPerPart; endPage = Math.min(startPage + pagesPerPart,
\* totalPages); for (let p = startPage; p < endPage; p++) { copy page p }
BuildSizePart(i, pagesPerPart, totalPages, pdfDoc) ==
  LET startPage == i * pagesPerPart
      endPage == Min(startPage + pagesPerPart, totalPages)
      idx == [k \in 1..(IF endPage > startPage THEN endPage - startPage ELSE 0)
                |-> startPage + k - 1]
      c == CopyPages(pdfDoc, idx)
  IN [threw |-> c.threw, pdf |-> AddPages(EmptyPdf, c.pages)]

(* ------------------------------ artifacts ------------------------------ *)
\* `split-part${i + 1}-${Date.now()}.pdf`, `merged-${Date.now()}.pdf` and
\* `split-files-${Date.now()}.zip`: the prefix, the number and the clock
\* reading that make up the name
NoName == [kind |-> "", n |-> 0, t |-> 0]
PartName(i, t) == [kind |-> "split-part", n |-> i + 1, t |-> t]
MergedName(t) == [kind |-> "merged", n |-> 0, t |-> t]
ZipName(t) == [kind |-> "split-files", n |-> 0, t |-> t]

\* the bytes of a PDF, and of an archive of named PDFs
PdfBody(pdf) == [pages |-> pdf, entries |-> <<>>]
ZipBody(entries) == [pages |-> <<>>, entries |-> entries]

\* fs.writeFile(path.join('downloads', name), body): creates or replaces
WriteFile(dir, name, body) ==
  {e \in dir : e.name # name} \cup {[name |-> name, body |-> body]}
Exists(dir, name) == \E e \in dir : e.name = name
ReadFile(dir, name) == (CHOOSE e \in dir : e.name = name).body

\* archive.file(path.join('downloads', filename), {name: filename}) for each
\* output file, read when the archive is finalized
ZipEntries(dir, outputFiles) ==
  [k \in 1..Len(outputFiles) |->
     [name |-> outputFiles[k],
      pages |-> IF Exists(dir, outputFiles[k])
                THEN ReadFile(dir, outputFiles[k]).pages ELSE <<>>]]

(* -------------------------------- state -------------------------------- *)
VARIABLES
  now,        \* Date.now(), in milliseconds
  downloads,  \* the files of the downloads directory: {[name, body]}
  writeLog,   \* every write to the downloads directory so far: <<[req, name]>>
  rq          \* per request: the handler's position and local variables

vars == <<now, downloads, writeLog, rq>>

\* the locals of a handler before the request arrives
Idle ==
  [pc |-> "idle", endpoint |-> "", files |-> <<>>, splitOption |-> "",
   pageRanges |-> <<>>, numParts |-> <<>>, totalPages |-> 0, mode |-> "",
   ranges |-> <<>>, parts |-> NaN, pagesPerPart |-> 0, i |-> 0,
   newPdf |-> EmptyPdf, mergedPdf |-> EmptyPdf, filename |-> NoName,
   outputFiles |-> <<>>, status |-> 0, fault |-> "", loaded |-> 0,
   built |-> <<>>]

Init ==
  /\ now = 0
  /\ downloads = {}
  /\ writeLog = <<>>
  /\ rq = [r \in Reqs |-> Idle]

\* res.status(code).json(...): the response ends the request
Respond(l, code, fault) == [l EXCEPT !.pc = "done", !.status = code, !.fault = fault]

(* -------------------------------- inputs ------------------------------- *)
\* decimal text of an integer
RECURSIVE NatStr(_)
NatStr(n) == IF n < 10 THEN <<DigitChars[n + 1]>>
             ELSE NatStr(n \div 10) \o <<DigitChars[(n % 10) + 1]>>
IntStr(n) == IF n < 0 THEN <<"-">> \o NatStr(-n) ELSE NatStr(n)

\* an uploaded PDF of n pages, the f-th file of its request; one that does
\* not parse as a PDF
Pdf(f, n) == [ok |-> TRUE, pages |-> [k \in 1..n |-> <<f, k - 1>>]]
BadPdf == [ok |-> FALSE, pages |-> <<>>]
Uploads(f) == {Pdf(f, n) : n \in 0..MaxPages} \cup {BadPdf}

\* sequences of at most n elements of S
SeqUpTo(S, n) == UNION {[1..k -> S] : k \in 0..n}

\* range tokens: 'n', 'a-b', and tokens that are not of these forms
SingleTokens == {IntStr(n) : n \in (-1)..MaxNum}
IntervalTokens ==
  {IntStr(a) \o <<"-">> \o IntStr(b) : a \in 0..MaxNum, b \in (-1)..MaxNum}
OddTokens ==
  {<<"x">>, <<>>, <<" ", "1", " ">>, <<"1", "x">>, <<"1", "-">>,
   <<"1", " ", "-", " ", "2">>, <<"1", "-", "x">>, <<"1", "0">>,
   <<"1", "-", "1", "0">>}
Tokens == SingleTokens \cup IntervalTokens \cup OddTokens

\* the tokens of range expressions of several tokens
ListTokens ==
  {IntStr(n) : n \in 0..MaxPages}
    \cup {IntStr(a) \o <<"-">> \o IntStr(b) : a \in 1..MaxPages, b \in 2..MaxPages}
    \cup {<<"x">>}

RECURSIVE Join(_, _)
Join(ts, sep) ==
  IF Len(ts) = 0 THEN <<>>
  ELSE IF Len(ts) = 1 THEN ts[1]
  ELSE ts[1] \o <<sep>> \o Join(Tail(ts), sep)

RangeExprs ==
  Tokens \cup {Join(ts, ",") : ts \in SeqUpTo(ListTokens, MaxTokens)}

PartCounts == {IntStr(n) : n \in (-1)..MaxParts} \cup {<<"x">>, <<>>}

\* req.files of a merge request; req.file and req.body of a split request
MergeInputs == UNION {{fs \in [1..k -> UNION {Uploads(f) : f \in 1..k}] :
                         \A f \in 1..k : fs[f] \in Uploads(f)} : k \in 0..MaxFiles}
SplitInputs ==
  {[file |-> f, splitOption |-> "pages", pageRanges |-> e, numParts |-> <<>>] :
     f \in {<<Pdf(1, n)>> : n \in 0..MaxPages}, e \in RangeExprs}
  \cup
  {[file |-> f, splitOption |-> "size", pageRanges |-> <<>>, numParts |-> n] :
     f \in {<<Pdf(1, n)>> : n \in 0..MaxPages}, n \in PartCounts}
  \cup
  {[file |-> f, splitOption |-> o, pageRanges |-> <<"1">>, numParts |-> <<"1">>] :
     f \in {<<>>, <<BadPdf>>}, o \in {"pages", "size"}}
  \cup
  {[file |-> <<Pdf(1, 1)>>, splitOption |-> "", pageRanges |-> <<>>, numParts |-> <<>>]}

(* ------------------------------ the clock ------------------------------ *)
Tick ==
  /\ now < MaxClock
  /\ now' = now + 1
  /\ UNCHANGED <<downloads, writeLog, rq>>

(* -------------------------------- merge -------------------------------- *)
\* !files || files.length < 2
TooFewFilesNone(files) == Len(files) < 1
TooFewFiles(files) == Len(files) < 2

\* POST /api/merge up to the first await of the loop over the files
MergeRequest(r, files) ==
  /\ rq[r].pc = "idle"
  /\ rq' = [rq EXCEPT ![r] =
       IF TooFewFiles(files)
       THEN Respond([@ EXCEPT !.endpoint = "merge", !.files = files], 400, "validation")
       ELSE [@ EXCEPT !.endpoint = "merge", !.files = files,
                      !.mergedPdf = EmptyPdf, !.i = 0, !.pc = "mergeLoop"]]
  /\ UNCHANGED <<now, downloads, writeLog>>

\* one iteration of for (const file of files): load, copy every page, add
MergeCopy(r) ==
  LET l == rq[r]
      file == l.files[l.i + 1]
  IN /\ l.pc = "mergeLoop"
     /\ rq' = [rq EXCEPT ![r] =
          IF ~file.ok
          THEN Respond([l EXCEPT !.loaded = @ + 1], 500, "format")
          ELSE LET c == CopyPages(file.pages, PageIndices(file.pages))
               IN IF c.threw THEN Respond([l EXCEPT !.loaded = @ + 1], 500, "copy")
                  ELSE [l EXCEPT !.loaded = @ + 1,
                                 !.mergedPdf = AddPages(@, c.pages),
                                 !.i = @ + 1,
                                 !.pc = IF l.i + 1 < Len(l.files)
                                        THEN "mergeLoop" ELSE "mergeName"]]
     /\ UNCHANGED <<now, downloads, writeLog>>

\* outputFilename = `merged-${Date.now()}.pdf`, then mkdir and save
MergeName(r) ==
  /\ rq[r].pc = "mergeName"
  /\ rq' = [rq EXCEPT ![r].filename = MergedName(now), ![r].pc = "mergeWrite"]
  /\ UNCHANGED <<now, downloads, writeLog>>

\* fs.writeFile(outputPath, mergedPdfBytes) and the response
MergeWrite(r) ==
  LET l == rq[r]
  IN /\ l.pc = "mergeWrite"
     /\ downloads' = WriteFile(downloads, l.filename, PdfBody(l.mergedPdf))
     /\ writeLog' = Append(writeLog, [req |-> r, name |-> l.filename])
     /\ rq' = [rq EXCEPT ![r] = Respond(l, 200, "")]
     /\ UNCHANGED now

\* fs.writeFile rejects: the catch block answers 500
MergeWriteFails(r) ==
  /\ rq[r].pc = "mergeWrite"
  /\ rq' = [rq EXCEPT ![r] = Respond(@, 500, "io")]
  /\ UNCHANGED <<now, downloads, writeLog>>

(* -------------------------------- split -------------------------------- *)
\* POST /api/split up to the first part: the file check, the load, and the
\* choice of the mode
SplitRequest(r, in) ==
  LET l == [rq[r] EXCEPT !.endpoint = "split", !.files = in.file,
                         !.splitOption = in.splitOption,
                         !.pageRanges = in.pageRanges, !.numParts = in.numParts]
  IN /\ rq[r].pc = "idle"
     /\ rq' = [rq EXCEPT ![r] =
          IF in.file = <<>> THEN Respond(l, 400, "validation")
          ELSE IF ~in.file[1].ok THEN Respond([l EXCEPT !.loaded = 1], 500, "format")
          ELSE LET pdfDoc == in.file[1].pages
                   m == [l EXCEPT !.loaded = 1, !.totalPages = PageCount(pdfDoc),
                                  !.outputFiles = <<>>, !.i = 0]
               IN IF in.splitOption = "pages" /\ Truthy(in.pageRanges)
                  THEN [m EXCEPT !.mode = "pages",
                                 !.ranges = ParseRanges(in.pageRanges),
                                 !.pc = "build"]
                  ELSE IF in.splitOption = "size" /\ Truthy(in.numParts)
                  THEN LET parts == ParseInt(in.numParts)
                       IN [m EXCEPT !.mode = "size", !.parts = parts,
                                    !.pagesPerPart =
                                      IF parts.nan THEN 0
                                      ELSE PagesPerPart(PageCount(pdfDoc), parts.v),
                                    !.pc = IF NumLT(Num(0), parts)
                                           THEN "build" ELSE "zip"]
                  ELSE [m EXCEPT !.pc = "zip"]]
     /\ UNCHANGED <<now, downloads, writeLog>>

\* the new document of the current iteration and its file name, or the
\* exception thrown by a page copy
Built(r, b) ==
  IF b.threw THEN Respond(rq[r], 500, "copy")
  ELSE [rq[r] EXCEPT !.newPdf = b.pdf, !.filename = PartName(rq[r].i, now),
                     !.pc = "write"]

\* an iteration of the loop over ranges, up to the write of the part
BuildRangePart(r) ==
  LET l == rq[r]
  IN /\ l.pc = "build" /\ l.mode = "pages"
     /\ rq' = [rq EXCEPT ![r] =
          Built(r, BuildRange(l.ranges[l.i + 1], l.totalPages, l.files[1].pages))]
     /\ UNCHANGED <<now, downloads, writeLog>>

\* an iteration of the loop over the parts, up to the write of the part
BuildSizedPart(r) ==
  LET l == rq[r]
  IN /\ l.pc = "build" /\ l.mode = "size"
     /\ rq' = [rq EXCEPT ![r] =
          Built(r, BuildSizePart(l.i, l.pagesPerPart, l.totalPages, l.files[1].pages))]
     /\ UNCHANGED <<now, downloads, writeLog>>

\* i < ranges.length, i < parts
MorePartsOneShort(l) ==
  IF l.mode = "pages" THEN l.i + 1 < Len(l.ranges) ELSE NumLT(Num(l.i + 2), l.parts)
MoreParts(l) ==
  IF l.mode = "pages" THEN l.i + 1 < Len(l.ranges) ELSE NumLT(Num(l.i + 1), l.parts)

\* fs.writeFile(outputPath, pdfBytesOut); outputFiles.push(filename); i++
WritePart(r) ==
  LET l == rq[r]
  IN /\ l.pc = "write"
     /\ downloads' = WriteFile(downloads, l.filename, PdfBody(l.newPdf))
     /\ writeLog' = Append(writeLog, [req |-> r, name |-> l.filename])
     /\ rq' = [rq EXCEPT ![r] =
          [l EXCEPT !.outputFiles = Append(@, l.filename),
                    !.built = Append(@, l.newPdf),
                    !.i = @ + 1,
                    !.pc = IF MoreParts(l) THEN "build" ELSE "zip"]]
     /\ UNCHANGED now

\* fs.writeFile rejects: the catch block answers 500
WritePartFails(r) ==
  /\ rq[r].pc = "write"
  /\ rq' = [rq EXCEPT ![r] = Respond(@, 500, "io")]
  /\ UNCHANGED <<now, downloads, writeLog>>

\* the archive of the parts: named, filled from the files of the downloads
\* directory, finalized; then the response
Zip(r) ==
  LET l == rq[r]
      zipFilename == ZipName(now)
  IN /\ l.pc = "zip"
     /\ downloads' = WriteFile(downloads, zipFilename,
                               ZipBody(ZipEntries(downloads, l.outputFiles)))
     /\ writeLog' = Append(writeLog, [req |-> r, name |-> zipFilename])
     /\ rq' = [rq EXCEPT ![r] = Respond([l EXCEPT !.filename = zipFilename], 200, "")]
     /\ UNCHANGED now

(* ------------------------------- clients ------------------------------- *)
\* a client unpacks the archive a split answered with and posts its parts,
\* in the archive's order, to /api/merge
MergeParts(r, q) ==
  LET l == rq[r]
  IN /\ r # q
     /\ l.pc = "done" /\ l.endpoint = "split" /\ l.status = 200
     /\ Exists(downloads, l.filename)
     /\ LET es == ReadFile(downloads, l.filename).entries
        IN MergeRequest(q, [k \in 1..Len(es) |-> [ok |-> TRUE, pages |-> es[k].pages]])

Step(r) ==
  \/ MergeCopy(r) \/ MergeName(r) \/ MergeWrite(r) \/ MergeWriteFails(r)
  \/ BuildRangePart(r) \/ BuildSizedPart(r) \/ WritePart(r) \/ WritePartFails(r)
  \/ Zip(r)

\* one request at a time, each handled to its response; the parts of a split
\* may then be merged
\* a request arrives
NewMerge(r, inputs) == rq[r].pc = "idle" /\ \E files \in inputs : MergeRequest(r, files)
NewSplit(r, inputs) == rq[r].pc = "idle" /\ \E in \in inputs : SplitRequest(r, in)

Next ==
  \/ NewMerge(1, MergeInputs)
  \/ NewSplit(1, SplitInputs)
  \/ MergeParts(1, 2)
  \/ \E r \in Reqs : Step(r)
  \/ Tick

Spec == Init /\ [][Next]_vars

\* two requests handled concurrently
ConcMergeInputs == {fs \in MergeInputs : Len(fs) = 2 /\ \A f \in 1..2 : fs[f] = Pdf(f, 1)}
ConcSplitInputs ==
  {in \in SplitInputs :
     /\ in.file = <<Pdf(1, MaxPages)>>
     /\ \/ in.pageRanges \in {<<"1">>, <<"2">>, <<"1", ",", "2">>}
        \/ in.numParts = <<"2">>}

NextConc ==
  \/ \E r \in Reqs : NewMerge(r, ConcMergeInputs)
  \/ \E r \in Reqs : NewSplit(r, ConcSplitInputs)
  \/ \E r \in Reqs : Step(r)
  \/ Tick

SpecConc == Init /\ [][NextConc]_vars

(* =============================== claims ================================ *)
\* the pages of the document a split request was given
Source(r) == rq[r].files[1].pages
\* the source pages with 0-based indices lo..hi, ascending, each once
PagesFromTo(r, lo, hi) == [j \in 1..(IF hi >= lo THEN hi - lo + 1 ELSE 0) |-> Source(r)[lo + j]]
\* the text of the token 'a-b'
IntervalText(a, b) == IntStr(a) \o <<"-">> \o IntStr(b)
\* the comma-separated tokens of the range expression of request r
TokensOf(r) ==
  LET raw == Split(rq[r].pageRanges, ",") IN [k \in 1..Len(raw) |-> Trim(raw[k])]
\* the token request r was working on when it ended
TokenAtEnd(r) ==
  IF rq[r].i + 1 \in 1..Len(TokensOf(r)) THEN TokensOf(r)[rq[r].i + 1] ELSE <<"?">>
\* the number of tokens already turned into a document by request r
NBuilt(r) == Len(rq[r].built)
\* request r threw while building the document of its current token
ThrewAtToken(r) == rq[r].pc = "done" /\ rq[r].fault = "copy"
RECURSIVE Flatten(_)
Flatten(docs) == IF docs = <<>> THEN <<>> ELSE Head(docs) \o Flatten(Tail(docs))
RECURSIVE SumLen(_)
SumLen(docs) == IF docs = <<>> THEN 0 ELSE Len(Head(docs)) + SumLen(Tail(docs))
Finished(r) == rq[r].pc = "done"
WrittenBy(r) == {writeLog[k].name : k \in {j \in 1..Len(writeLog) : writeLog[j].req = r}}

\* the texts of the tokens 'a-b' with a >= 1
IntervalTexts == [a \in 1..MaxNum, b \in (-1)..MaxNum |-> IntervalText(a, b)]

C2_SinglePage ==
  \A r \in Reqs : rq[r].mode = "pages" =>
    \A n \in (-1)..MaxNum :
      /\ \A k \in 1..Min(NBuilt(r), Len(TokensOf(r))) :
           TokensOf(r)[k] = IntStr(n) =>
             rq[r].built[k] = IF 1 <= n /\ n <= rq[r].totalPages
                              THEN PagesFromTo(r, n - 1, n - 1) ELSE <<>>
      /\ ThrewAtToken(r) => TokenAtEnd(r) # IntStr(n)

\* C3: split by range with N comma-separated tokens, whatever the tokens:
\* unless the file is no PDF or a write fails, the request is answered 200
\* with exactly N documents, in token order, and a bad token aborts nothing.
C3_OneDocumentPerToken ==
  \A r \in Reqs :
    (/\ Finished(r) /\ rq[r].endpoint = "split" /\ rq[r].splitOption = "pages"
     /\ Truthy(rq[r].pageRanges) /\ rq[r].files # <<>>
     /\ rq[r].fault \notin {"io", "format"})
    => /\ rq[r].status = 200
       /\ NBuilt(r) = Len(Split(rq[r].pageRanges, ","))
       /\ Len(rq[r].outputFiles) = NBuilt(r)

\* C4: merge of k >= 2 documents: unless a file is no PDF or the write
\* fails the answer is 200, and the merged file holds every page of every
\* source, sources in the given order and pages in their own order.
C4_MergeConcatenates ==
  \A r \in Reqs :
    (/\ Finished(r) /\ rq[r].endpoint = "merge" /\ Len(rq[r].files) >= 2
     /\ rq[r].fault \notin {"io", "format"})
    => /\ rq[r].status = 200
       /\ Exists(downloads, rq[r].filename)
       /\ LET out == ReadFile(downloads, rq[r].filename).pages
              docs == [k \in 1..Len(rq[r].files) |-> rq[r].files[k].pages]
          IN out = Flatten(docs) /\ Len(out) = SumLen(docs)

\* two sources of different, non-zero page counts were merged
C4_Witness ==
  \E r \in Reqs :
    /\ Finished(r) /\ rq[r].endpoint = "merge" /\ rq[r].status = 200
    /\ Len(rq[r].files) >= 2
    /\ Len(rq[r].files[1].pages) = 2 /\ Len(rq[r].files[2].pages) = 1
    /\ Len(ReadFile(downloads, rq[r].filename).pages) >= 3

\* the part count P of a split by size that ran its loop
SizeSplit(r) ==
  /\ Finished(r) /\ rq[r].mode = "size" /\ NumLE(Num(1), rq[r].parts)
  /\ rq[r].fault \notin {"io", "format"}
\* ceil(T / P) for P >= 1
CeilDiv(t, p) == CHOOSE c \in 0..t : c * p >= t /\ (c = 0 \/ (c - 1) * p < t)

TokensFor(lo, hi) ==
  IF lo = hi THEN {IntStr(lo), IntervalText(lo, lo)} ELSE {IntervalText(lo, hi)}
\* ranges are contiguous and together cover the pages 1..t, each page once
\* and in ascending order
Covers(ranges, t) ==
  /\ t >= 1
  /\ \E cut \in [0..Len(ranges) -> 0..t] :
       /\ cut[0] = 0 /\ cut[Len(ranges)] = t
       /\ \A k \in 1..Len(ranges) :
            cut[k - 1] < cut[k] /\ ranges[k] \in TokensFor(cut[k - 1] + 1, cut[k])
\* request r is a split by range over a covering expression, q is the merge
\* of the parts r produced, in order, and no file or write failed
RoundTrip(r, q) ==
  /\ r # q
  /\ Finished(r) /\ rq[r].mode = "pages" /\ Covers(TokensOf(r), rq[r].totalPages)
  /\ rq[r].fault \notin {"io", "format"}
  /\ Finished(q) /\ rq[q].endpoint = "merge" /\ rq[q].fault \notin {"io", "format"}
  /\ rq[q].files = [k \in 1..NBuilt(r) |-> [ok |-> TRUE, pages |-> rq[r].built[k]]]
\* both requests are answered 200 and the merged file is the source again
SourceAgain(r, q) ==
  /\ rq[r].status = 200 /\ rq[q].status = 200
  /\ Exists(downloads, rq[q].filename)
  /\ ReadFile(downloads, rq[q].filename).pages = Source(r)

\* C7 as stated: split by range over a contiguous range set covering every
\* page, then merge of the parts in the same order, succeeds and gives the
\* source page sequence.
C7_RoundTrip ==
  \A r \in Reqs, q \in Reqs : RoundTrip(r, q) => SourceAgain(r, q)

\* C7 amended: the same, for range expressions of at least two tokens.
C7_RoundTripTwoTokens ==
  \A r \in Reqs, q \in Reqs :
    RoundTrip(r, q) /\ Len(TokensOf(r)) >= 2 => SourceAgain(r, q)

\* a document of two pages was split into two parts and merged again
C7_Witness ==
  \E r \in Reqs, q \in Reqs :
    /\ RoundTrip(r, q) /\ Len(TokensOf(r)) >= 2 /\ rq[r].totalPages >= 2
    /\ rq[q].status = 200

\* C8: a merge of fewer than 2 files is answered with the validation error
\* before any source is loaded, and writes nothing to the downloads
\* directory.
C8_MergeNeedsTwo ==
  \A r \in Reqs :
    rq[r].endpoint = "merge" /\ Len(rq[r].files) < 2 =>
      /\ Finished(r) /\ rq[r].status = 400 /\ rq[r].fault = "validation"
      /\ rq[r].loaded = 0
      /\ WrittenBy(r) = {}

\* a merge of exactly one file was refused
C8_Witness ==
  \E r \in Reqs :
    /\ rq[r].endpoint = "merge" /\ Len(rq[r].files) = 1
    /\ Finished(r) /\ rq[r].status = 400

\* C9: when a page copy or a write fails part-way through a request, the
\* request ends with an error and no artifact it wrote before the failure
\* is left in the downloads directory.
C9_NoPartialArtifacts ==
  \A r \in Reqs :
    Finished(r) /\ rq[r].status = 500 =>
      \A name \in WrittenBy(r) : ~Exists(downloads, name)

\* C10: under every interleaving of requests, every artifact written to the
\* downloads directory has a name no other written artifact has, and the
\* archive a split answers with holds the parts that request built.
C10_DistinctArtifactNames ==
  /\ \A a \in 1..Len(writeLog), b \in 1..Len(writeLog) :
       a # b => writeLog[a].name # writeLog[b].name
  /\ \A r \in Reqs :
       Finished(r) /\ rq[r].endpoint = "split" /\ rq[r].status = 200
         /\ Exists(downloads, rq[r].filename) =>
       LET es == ReadFile(downloads, rq[r].filename).entries
       IN /\ Len(es) = NBuilt(r)
          /\ \A k \in 1..Len(es) : es[k].pages = rq[r].built[k]

====
